---- MODULE Spec2Model ----
(***************************************************************************)
(* The Applications ROI Calculator (src/updated_app_py.py).                *)
(*                                                                         *)
(* The program is a Streamlit script: every change of a widget re-executes *)
(* the script from its first line to its last with the widgets' current    *)
(* values.  The state of the model is the widgets' values together with    *)
(* the module-level names the last execution of the script bound.  One     *)
(* action per widget; each action is the change of the widget followed by  *)
(* the whole re-execution.                                                  *)
(*                                                                         *)
(* Python floats are IEEE-754 binary64 numbers.  They are modelled by      *)
(* their exact value, sign * m * 2^e with m an odd natural number of at    *)
(* most 53 bits, and every arithmetic operation rounds its exact result to *)
(* the nearest such number, ties to even, as the hardware does.  The       *)
(* significand m does not fit TLC's 32-bit integers and is kept as a       *)
(* little-endian sequence of base-2^15 limbs.  The exponent is unbounded:  *)
(* overflow to infinity, subnormals and the sign of zero are not modelled  *)
(* (no value of the model comes near 2^1024 or 2^-1022).                   *)
(***************************************************************************)
EXTENDS Integers, Sequences, FiniteSets, TLC

(***************************************************************************)
(* Natural numbers of arbitrary size: <<l1, ..., ln>> is                   *)
(* l1 + l2*BASE + ... + ln*BASE^(n-1), ln # 0; <<>> is zero.               *)
(***************************************************************************)
LIMB == 15
BASE == 2^15

Pow2(n) == 2^n

RECURSIVE BTrim(_)
BTrim(a) ==
    IF a = <<>> THEN a
    ELSE IF a[Len(a)] = 0 THEN BTrim(SubSeq(a, 1, Len(a) - 1))
    ELSE a

RECURSIVE BFromInt(_)
BFromInt(n) == IF n = 0 THEN <<>> ELSE <<n % BASE>> \o BFromInt(n \div BASE)

RECURSIVE BCmpAt(_, _, _)
BCmpAt(a, b, i) ==
    IF i = 0 THEN 0
    ELSE IF a[i] > b[i] THEN 1
    ELSE IF a[i] < b[i] THEN -1
    ELSE BCmpAt(a, b, i - 1)

\* -1, 0 or 1 as a < b, a = b or a > b
BCmp(a, b) ==
    IF Len(a) > Len(b) THEN 1
    ELSE IF Len(a) < Len(b) THEN -1
    ELSE BCmpAt(a, b, Len(a))

RECURSIVE BAddC(_, _, _, _)
BAddC(a, b, i, c) ==
    IF i > Len(a) /\ i > Len(b) THEN (IF c = 0 THEN <<>> ELSE <<c>>)
    ELSE LET x == (IF i <= Len(a) THEN a[i] ELSE 0)
                  + (IF i <= Len(b) THEN b[i] ELSE 0) + c
         IN  <<x % BASE>> \o BAddC(a, b, i + 1, x \div BASE)

BAdd(a, b) == BAddC(a, b, 1, 0)

RECURSIVE BSubC(_, _, _, _)
BSubC(a, b, i, br) ==
    IF i > Len(a) THEN <<>>
    ELSE LET x == a[i] - (IF i <= Len(b) THEN b[i] ELSE 0) - br
         IN  <<x % BASE>> \o BSubC(a, b, i + 1, IF x < 0 THEN 1 ELSE 0)

\* a - b, for a >= b
BSub(a, b) == BTrim(BSubC(a, b, 1, 0))

RECURSIVE BMulSmallC(_, _, _, _)
BMulSmallC(a, k, i, c) ==
    IF i > Len(a) THEN (IF c = 0 THEN <<>> ELSE <<c>>)
    ELSE LET x == a[i] * k + c
         IN  <<x % BASE>> \o BMulSmallC(a, k, i + 1, x \div BASE)

\* a * k, for 0 <= k < BASE
BMulSmall(a, k) == IF k = 0 THEN <<>> ELSE BMulSmallC(a, k, 1, 0)

BShiftLimbs(a, n) == IF a = <<>> THEN a ELSE [i \in 1..n |-> 0] \o a

RECURSIVE BMulAt(_, _, _)
BMulAt(a, b, i) ==
    IF i > Len(a) THEN <<>>
    ELSE BAdd(BMulSmall(b, a[i]), BShiftLimbs(BMulAt(a, b, i + 1), 1))

BMul(a, b) == BMulAt(a, b, 1)

\* <<quotient limbs 1..i, remainder>> of the limbs 1..i of a, with rem in front,
\* divided by d, for 0 < d < BASE
RECURSIVE BDivSmallAt(_, _, _, _)
BDivSmallAt(a, d, i, rem) ==
    IF i = 0 THEN <<(<<>>), rem>>
    ELSE LET cur  == rem * BASE + a[i]
             rest == BDivSmallAt(a, d, i - 1, cur % d)
         IN  <<Append(rest[1], cur \div d), rest[2]>>

BDivTrim(r) == <<BTrim(r[1]), r[2]>>

BDivSmall(a, d) == BDivTrim(BDivSmallAt(a, d, Len(a), 0))

\* a * 2^n
BShl(a, n) == BShiftLimbs(BMulSmall(a, Pow2(n % LIMB)), n \div LIMB)

\* a \div 2^n
BShr(a, n) ==
    LET q == n \div LIMB
    IN  IF q >= Len(a) THEN <<>>
        ELSE BDivSmall(SubSeq(a, q + 1, Len(a)), Pow2(n % LIMB))[1]

BitLenInt(x) == CHOOSE n \in 0..LIMB : Pow2(n) > x /\ (n = 0 \/ Pow2(n - 1) <= x)

BitLen(a) == IF a = <<>> THEN 0 ELSE LIMB * (Len(a) - 1) + BitLenInt(a[Len(a)])

\* bit k of a (bit 0 is the lowest)
BBit(a, k) ==
    LET i == k \div LIMB + 1
    IN  IF i > Len(a) THEN 0 ELSE (a[i] \div Pow2(k % LIMB)) % 2

\* some bit below bit k of a is set
BLowNonzero(a, k) ==
    LET q == k \div LIMB
    IN  \/ \E i \in 1..q : i <= Len(a) /\ a[i] # 0
        \/ q + 1 <= Len(a) /\ a[q + 1] % Pow2(k % LIMB) # 0

TrailingZerosInt(x) == CHOOSE n \in 0..LIMB : x % Pow2(n) = 0 /\ x % Pow2(n + 1) # 0

RECURSIVE BTrailingZerosAt(_, _)
BTrailingZerosAt(a, i) ==
    IF a[i] = 0 THEN LIMB + BTrailingZerosAt(a, i + 1) ELSE TrailingZerosInt(a[i])

\* the number of zero bits below the lowest set bit of a, for a # 0
BTrailingZeros(a) == BTrailingZerosAt(a, 1)

\* r * BASE + l
BPushLimb(r, l) == IF r = <<>> /\ l = 0 THEN <<>> ELSE <<l>> \o r

\* <<q, r - q * d>> for the largest q with q * d <= r, given a guess q >= it
\* and p = q * d
RECURSIVE BDivFix(_, _, _, _)
BDivFix(r, d, q, p) ==
    IF BCmp(p, r) > 0 THEN BDivFix(r, d, q - 1, BSub(p, d))
    ELSE <<q, BSub(r, p)>>

\* <<r \div d, r % d>> for r < d * BASE and d of at least two limbs, the
\* highest of them BASE/2 or more: the quotient guessed from the two highest
\* limbs of r and the highest of d is at most 2 too large (Knuth, 4.3.1 D)
BDivGuess(r, d) ==
    LET n   == Len(d)
        top == (IF Len(r) > n THEN r[n + 1] ELSE 0) * BASE + r[n]
        g   == top \div d[n]
    IN  IF g >= BASE THEN BASE - 1 ELSE g

BDivTry(r, d, q) == BDivFix(r, d, q, BMulSmall(d, q))

BDivDigit(r, d) ==
    IF BCmp(r, d) < 0 THEN <<0, r>> ELSE BDivTry(r, d, BDivGuess(r, d))

\* Long division, one quotient limb a step: the limbs i, i-1, ... of n are
\* brought down onto the remainder r.  <<the quotient's limbs, the remainder>>
RECURSIVE BDivLimbs(_, _, _, _)

BDivPut(dg, rest) == <<Append(rest[1], dg[1]), rest[2]>>

BDivStep(n, d, dg, i) == BDivPut(dg, BDivLimbs(n, d, dg[2], i - 1))

BDivLimbs(n, d, r, i) ==
    IF i = 0 THEN <<(<<>>), r>>
    ELSE BDivStep(n, d, BDivDigit(BPushLimb(r, n[i]), d), i)

\* <<n \div d, n % d>>, for d # 0
BDivShort(r) == <<r[1], BFromInt(r[2])>>

BDivUnshift(r, sh) == <<BTrim(r[1]), BShr(r[2], sh)>>

BDivLong(sn, sd, sh) == BDivUnshift(BDivLimbs(sn, sd, <<>>, Len(sn)), sh)

\* d is brought to a highest limb of BASE/2 or more, and n with it
BDivShift(n, d, sh) == BDivLong(BShl(n, sh), BShl(d, sh), sh)

BDivMod(n, d) ==
    IF Len(d) = 1 THEN BDivShort(BDivSmall(n, d[1]))
    ELSE BDivShift(n, d, LIMB - BitLenInt(d[Len(d)]))

(***************************************************************************)
(* Python's float.  A number is sign s (1 or -1), odd significand m and    *)
(* exponent e: s * m * 2^e; zero has m = <<>>.  np.nan is NaN.             *)
(***************************************************************************)
MantBits == 53

NaN == [k |-> "nan", s |-> 1, m |-> <<>>, e |-> 0]

Zero == [k |-> "num", s |-> 1, m |-> <<>>, e |-> 0]

IsNaN(x) == x.k = "nan"

IsZero(x) == x.k = "num" /\ x.m = <<>>

\* bool(x): zero is false, every other float, nan included, is true
Truthy(x) == ~IsZero(x)

\* the float s * m * 2^e, for m of at most MantBits bits
CanonOdd(s, m, e, tz) == [k |-> "num", s |-> s, m |-> BShr(m, tz), e |-> e + tz]

Canon(s, m, e) == IF m = <<>> THEN Zero ELSE CanonOdd(s, m, e, BTrailingZeros(m))

\* The float nearest to s * (m + f) * 2^e, ties to even, where 0 < f < 1 if
\* sticky and f = 0 if not (sticky only with m of more than MantBits + 1 bits).
RoundUp(q, up) == IF up THEN BAdd(q, <<1>>) ELSE q

\* m without its sh lowest bits, rounded on what they and f were
RoundCut(m, sh, sticky) ==
    RoundUp(BShr(m, sh),
            /\ BBit(m, sh - 1) = 1
            /\ sticky \/ BLowNonzero(m, sh - 1) \/ BBit(m, sh) = 1)

\* m has sh bits more than a significand holds
RoundFit(s, m, e, sticky, sh) ==
    Canon(s, IF sh <= 0 THEN m ELSE RoundCut(m, sh, sticky),
          IF sh <= 0 THEN e ELSE e + sh)

Round(s, m, e, sticky) == RoundFit(s, m, e, sticky, BitLen(m) - MantBits)

\* float(n) of a Python int n, |n| < 2^31
FromInt(n) == Canon(IF n < 0 THEN -1 ELSE 1, BFromInt(IF n < 0 THEN -n ELSE n), 0)

FNeg(x) == IF IsNaN(x) \/ IsZero(x) THEN x ELSE [x EXCEPT !.s = -x.s]

\* x * y
FMul(x, y) ==
    IF IsNaN(x) \/ IsNaN(y) THEN NaN
    ELSE IF IsZero(x) \/ IsZero(y) THEN Zero
    ELSE Round(x.s * y.s, BMul(x.m, y.m), x.e + y.e, FALSE)

\* x + y
\* a and b are |x| and |y| in units of 2^e, c compares them: | x + y |
FAddMagnitude(x, y, a, b, c) ==
    IF x.s = y.s THEN BAdd(a, b)
    ELSE IF c > 0 THEN BSub(a, b)
    ELSE IF c < 0 THEN BSub(b, a)
    ELSE <<>>

FAddSigned(x, y, e, a, b, c) ==
    Round(IF x.s = y.s \/ c > 0 THEN x.s ELSE y.s,
          FAddMagnitude(x, y, a, b, c), e, FALSE)

FAddCompared(x, y, e, a, b) == FAddSigned(x, y, e, a, b, BCmp(a, b))

FAddAligned(x, y, e) ==
    FAddCompared(x, y, e, BShl(x.m, x.e - e), BShl(y.m, y.e - e))

FAdd(x, y) ==
    IF IsNaN(x) \/ IsNaN(y) THEN NaN
    ELSE IF IsZero(x) THEN y
    ELSE IF IsZero(y) THEN x
    ELSE FAddAligned(x, y, IF x.e < y.e THEN x.e ELSE y.e)

\* x - y
FSub(x, y) == FAdd(x, FNeg(y))

\* x / y, for y # 0 (Python raises ZeroDivisionError for y = 0: see Div)
FDivQuotient(x, y, qr, sh) ==
    Round(x.s * y.s, qr[1], x.e - y.e - sh, qr[2] # <<>>)

\* x.m * 2^sh has MantBits + 2 bits more than y.m, or more
FDivScaled(x, y, sh) == FDivQuotient(x, y, BDivMod(BShl(x.m, sh), y.m), sh)

FDivBits(x, y, d) == FDivScaled(x, y, IF d > 0 THEN d ELSE 0)

FDiv(x, y) ==
    IF IsNaN(x) \/ IsNaN(y) THEN NaN
    ELSE IF IsZero(x) THEN Zero
    ELSE FDivBits(x, y, MantBits + 2 + BitLen(y.m) - BitLen(x.m))

\* x > 0
FPositive(x) == x.k = "num" /\ x.m # <<>> /\ x.s = 1

\* The float a decimal literal or a decimal typed into a widget denotes: the
\* float nearest to n / 10^digits.
Dec(n, digits) == FDiv(FromInt(n), FromInt(10^digits))

(***************************************************************************)
(* The script's constants.                                                 *)
(***************************************************************************)
LICENSE_COST_PER_VESSEL_PER_MONTH == 300

\* the keys of applications, in the dict's (insertion) order
AppNames ==
    <<"Hull Maintainance App", "Voyage Optimization App", "Emission App",
      "Performance App", "Propulsion Pro", "Bunker management">>

Apps == {AppNames[i] : i \in 1..Len(AppNames)}

\* min, max and default of each application, written in tenths of a percent
AppTenths ==
    [a \in Apps |->
        CASE a = "Hull Maintainance App"   -> [min |-> 0, max |-> 150, default |-> 30]
          [] a = "Voyage Optimization App" -> [min |-> 0, max |-> 60,  default |-> 20]
          [] a = "Emission App"            -> [min |-> 0, max |-> 30,  default |-> 15]
          [] a = "Performance App"         -> [min |-> 0, max |-> 30,  default |-> 10]
          [] a = "Propulsion Pro"          -> [min |-> 0, max |-> 40,  default |-> 0]
          [] a = "Bunker management"       -> [min |-> 0, max |-> 70,  default |-> 0]]

applications ==
    [a \in Apps |-> [min     |-> Dec(AppTenths[a].min, 1),
                     max     |-> Dec(AppTenths[a].max, 1),
                     default |-> Dec(AppTenths[a].default, 1)]]

\* the literal 3.114
CO2_PER_TON_FUEL == Dec(3114, 3)

\* a name the script has not bound (yet) in this execution
Unbound == [k |-> "unbound", s |-> 1, m |-> <<>>, e |-> 0]

(***************************************************************************)
(* One execution of the script, statement by statement.  w holds the       *)
(* values the widgets return in this execution, old the names the previous *)
(* execution bound.                                                        *)
(***************************************************************************)

\* selected_apps[app_name] = selected
SelectedApps(checkbox) == [a \in Apps |-> checkbox[a]]

\* the slider's value is taken whether the application is selected or not
AppSavingsAnySlider(selected, slider) == [a \in Apps |-> slider[a]]

\* app_savings: the slider of a selected application, 0.0 for the others
AppSavings(selected, slider) ==
    [a \in Apps |-> IF selected[a] THEN slider[a] ELSE Zero]

\* the license of one month
LicenseCostOneMonth(fs) == fs * LICENSE_COST_PER_VESSEL_PER_MONTH

\* fleet_size * LICENSE_COST_PER_VESSEL_PER_MONTH * 12, an int
LicenseCostAnnual(fs) == fs * LICENSE_COST_PER_VESSEL_PER_MONTH * 12

\* fleet_size * daily_consumption * operating_days * fuel_price
BaselineFuelCost(fs, dc, od, fp) ==
    FMul(FMul(FMul(FromInt(fs), dc), FromInt(od)), fp)

\* the percentage added to the baseline instead of taken of it
SavingAmountAdded(baseline, saving_percentage) ==
    FDiv(FAdd(baseline, saving_percentage), FromInt(100))

\* baseline_fuel_cost * saving_percentage / 100
SavingAmount(baseline, saving_percentage) ==
    FDiv(FMul(baseline, saving_percentage), FromInt(100))

\* the saving amounts of AppNames[i], AppNames[i+1], ..., in this order
RECURSIVE SavingAmountsFrom(_, _, _)
SavingAmountsFrom(baseline, savings, i) ==
    IF i > Len(AppNames) THEN <<>>
    ELSE <<SavingAmount(baseline, savings[AppNames[i]])>>
         \o SavingAmountsFrom(baseline, savings, i + 1)

AppIndex(a) == CHOOSE i \in 1..Len(AppNames) : AppNames[i] = a

\* app_saving_amounts, filled by the loop over applications.keys()
AmountsByApp(amounts) == [a \in Apps |-> amounts[AppIndex(a)]]

AppSavingAmounts(baseline, savings) ==
    AmountsByApp(SavingAmountsFrom(baseline, savings, 1))

\* acc + amounts[AppNames[i]] + amounts[AppNames[i+1]] + ..., left to right
RECURSIVE SumFrom(_, _, _)
SumFrom(acc, amounts, i) ==
    IF i > Len(AppNames) THEN acc
    ELSE SumFrom(FAdd(acc, amounts[AppNames[i]]), amounts, i + 1)

\* no reset: the total goes on from where the execution before left it
ResetTotalSavingsKeep(old) == IF old = Unbound THEN Zero ELSE old

\* total_savings = 0: whatever an earlier execution left is dropped
ResetTotalSavings(old) == Zero

\* app_saving_amounts = {}: whatever an earlier execution left is dropped
ResetAppSavingAmounts(old, new) == new

\* the loop total_savings += saving_amount over applications.keys()
TotalSavings(start, amounts) == SumFrom(start, amounts, 1)

\* zero instead of np.nan when there are no savings
PaybackYearsZero(lca, ts) ==
    IF Truthy(ts) THEN FDiv(FromInt(lca), ts) ELSE Zero

\* license_cost_annual / total_savings if total_savings else np.nan
PaybackYears(lca, ts) ==
    IF Truthy(ts) THEN FDiv(FromInt(lca), ts) ELSE NaN

\* no months instead of nan months when payback_years is nan
PaybackMonthsZero(py) ==
    IF IsNaN(py) THEN Zero ELSE FMul(py, FromInt(12))

\* payback_years * 12 if payback_years else np.nan
PaybackMonths(py) ==
    IF Truthy(py) THEN FMul(py, FromInt(12)) ELSE NaN

\* ((savings - cost) / cost) * 100, for an int cost # 0
RoiRatio(savings, c) == FMul(FDiv(FSub(savings, c), c), FromInt(100))

RoiFormula(savings, cost) == RoiRatio(savings, FromInt(cost))

\* guarded by the savings instead of the divisor
RoiPercentIfSavings(ts, lca) == IF Truthy(ts) THEN RoiFormula(ts, lca) ELSE NaN

\* ((total_savings - license_cost_annual) / license_cost_annual) * 100
\* if license_cost_annual else np.nan
RoiPercent(ts, lca) == IF lca # 0 THEN RoiFormula(ts, lca) ELSE NaN

\* x / y raises ZeroDivisionError
DivRaises(y) == IsZero(y)

\* abs(x) >= abs(y)
FAbsGe(x, y) ==
    /\ ~IsNaN(x) /\ ~IsNaN(y)
    /\ \/ IsZero(y)
       \/ /\ ~IsZero(x)
          /\ IF x.e < y.e THEN BCmp(x.m, BShl(y.m, y.e - x.e)) >= 0
             ELSE BCmp(BShl(x.m, x.e - y.e), y.m) >= 0

\* Neumaier's summation, one item x: the sum so far f becomes t and what
\* the addition lost is added to c
NeumaierNext(f, c, x, t) ==
    <<t, FAdd(c, IF FAbsGe(f, x) THEN FAdd(FSub(f, t), x)
                 ELSE FAdd(FSub(x, t), f))>>

NeumaierStep(fc, x) == NeumaierNext(fc[1], fc[2], x, FAdd(fc[1], x))

RECURSIVE NeumaierFrom(_, _, _)
NeumaierFrom(fc, amounts, i) ==
    IF i > Len(AppNames) THEN fc
    ELSE NeumaierFrom(NeumaierStep(fc, amounts[AppNames[i]]), amounts, i + 1)

\* the compensation is added at the end, if it is not zero and is finite
NeumaierEnd(fc) ==
    IF Truthy(fc[2]) /\ ~IsNaN(fc[2]) THEN FAdd(fc[1], fc[2]) ELSE fc[1]

\* The builtin sum() over the values of app_saving_amounts, in the dict's
\* order.  CPython up to 3.11 adds them left to right; from 3.12 on it
\* compensates the rounding errors of the additions (Neumaier).
BuiltinSum(compensated, amounts) ==
    IF compensated THEN NeumaierEnd(NeumaierFrom(<<Zero, Zero>>, amounts, 1))
    ELSE SumFrom(Zero, amounts, 1)

\* sum(app_saving_amounts.values()) / fuel_price
FuelSaved(compensated, amounts, fp) ==
    FDiv(BuiltinSum(compensated, amounts), fp)

\* fuel_saved * 3.114
EmissionsReduced(fs) == FMul(fs, CO2_PER_TON_FUEL)

\* the savings of two years against the license of one
YearTwoRoiOneLicense(ts, lca) == RoiFormula(FMul(ts, FromInt(2)), lca)

\* the second entry of yearly_roi; no guard on the divisor
YearTwoRoi(ts, lca) == RoiFormula(FMul(ts, FromInt(2)), lca * 2)

\* {app: amount for app, amount in app_saving_amounts.items() if amount > 0}
FilteredAppSavings(amounts) ==
    [a \in {x \in Apps : FPositive(amounts[x])} |-> amounts[a]]

\* every name the script binds, and the exception that ended it if any
GlobalNames ==
    {"selected_apps", "app_savings", "license_cost_annual", "baseline_fuel_cost",
     "app_saving_amounts", "total_savings", "payback_years", "payback_months",
     "roi_percent", "fuel_saved", "emissions_reduced", "license_cost_total",
     "total_savings_3yr", "roi_percent_3yr", "fuel_saved_3yr",
     "emissions_reduced_3yr", "yearly_savings", "yearly_roi",
     "yearly_fuel_saved", "cumulative_savings", "filtered_app_savings", "raised"}

\* the namespace of a first execution: nothing is bound
FreshNamespace == [n \in GlobalNames |-> Unbound]

\* Each part of the script takes the namespace g the statements before it
\* have filled and returns it with its own bindings added.  An exception
\* binds "raised"; the statements after it bind nothing.
Raised(g) == "raised" \in DOMAIN g

\* the checkboxes and the sliders
Selection(w) ==
    [selected_apps |-> SelectedApps(w.checkbox),
     app_savings   |-> AppSavings(SelectedApps(w.checkbox), w.slider)]

\* "Core Calculations"
CoreBindings(old, w, g, bfc, amt) ==
    g @@ [license_cost_annual |-> LicenseCostAnnual(w.fleet_size),
          baseline_fuel_cost  |-> bfc,
          app_saving_amounts  |-> amt,
          total_savings       |->
              TotalSavings(ResetTotalSavings(old.total_savings), amt)]

SavingsLoop(old, w, g, bfc) ==
    CoreBindings(old, w, g, bfc,
                 ResetAppSavingAmounts(old.app_saving_amounts,
                                       AppSavingAmounts(bfc, g.app_savings)))

CoreCalculations(old, w, g) ==
    SavingsLoop(old, w, g,
                BaselineFuelCost(w.fleet_size, w.daily_consumption,
                                 w.operating_days, w.fuel_price))

\* "Calculate ROI metrics"
RoiBindings(g, py) ==
    g @@ [payback_years  |-> py,
          payback_months |-> PaybackMonths(py),
          roi_percent    |-> RoiPercent(g.total_savings, g.license_cost_annual)]

RoiMetrics(g) ==
    RoiBindings(g, PaybackYears(g.license_cost_annual, g.total_savings))

\* "Calculate environmental impact"; the first statement divides by
\* fuel_price
EnvironmentalBindings(g, fs) ==
    g @@ [fuel_saved |-> fs, emissions_reduced |-> EmissionsReduced(fs)]

EnvironmentalImpact(w, compensated, g) ==
    IF DivRaises(w.fuel_price) THEN g @@ [raised |-> "ZeroDivisionError"]
    ELSE EnvironmentalBindings(g, FuelSaved(compensated, g.app_saving_amounts,
                                            w.fuel_price))

\* fuel_saved_3yr without its factor 3
ThreeYearBindingsOneYearFuel(g, lct, ts3) ==
    g @@ [license_cost_total    |-> lct,
          total_savings_3yr     |-> ts3,
          roi_percent_3yr       |-> IF lct # 0 THEN RoiFormula(ts3, lct) ELSE NaN,
          fuel_saved_3yr        |-> g.fuel_saved,
          emissions_reduced_3yr |-> FMul(g.emissions_reduced, FromInt(3))]

\* the 3-year totals
ThreeYearBindings(g, lct, ts3) ==
    g @@ [license_cost_total    |-> lct,
          total_savings_3yr     |-> ts3,
          roi_percent_3yr       |-> IF lct # 0 THEN RoiFormula(ts3, lct) ELSE NaN,
          fuel_saved_3yr        |-> FMul(g.fuel_saved, FromInt(3)),
          emissions_reduced_3yr |-> FMul(g.emissions_reduced, FromInt(3))]

ThreeYearTotals(g) ==
    ThreeYearBindings(g, g.license_cost_annual * 3,
                      FMul(g.total_savings, FromInt(3)))

\* "Create year-by-year data for chart"; yearly_roi divides by
\* license_cost_annual * 2, after yearly_savings is bound
YearlyBindings(g, ts) ==
    IF g.license_cost_annual * 2 = 0
    THEN g @@ [yearly_savings |-> <<ts, ts, ts>>, raised |-> "ZeroDivisionError"]
    ELSE g @@
         [yearly_savings     |-> <<ts, ts, ts>>,
          yearly_roi         |->
              <<g.roi_percent, YearTwoRoi(ts, g.license_cost_annual),
                g.roi_percent_3yr>>,
          yearly_fuel_saved  |-> <<g.fuel_saved, g.fuel_saved, g.fuel_saved>>,
          cumulative_savings |->
              <<ts, FMul(ts, FromInt(2)), FMul(ts, FromInt(3))>>]

YearlySeries(g) == YearlyBindings(g, g.total_savings)

\* if view_3_years: ...
ThreeYearView(w, g) ==
    IF Raised(g) \/ ~w.view_3_years THEN g ELSE YearlySeries(ThreeYearTotals(g))

\* "UI Display": the only name it binds that depends on the calculation
Display(g) ==
    IF Raised(g) THEN g
    ELSE g @@ [filtered_app_savings |->
                   FilteredAppSavings(g.app_saving_amounts)]

\* the names the execution has bound; the others are Unbound
Namespace(g) ==
    g @@ [n \in GlobalNames |-> IF n = "raised" THEN "none" ELSE Unbound]

RunScript(old, w, compensated) ==
    Namespace(Display(ThreeYearView(w, EnvironmentalImpact(w, compensated,
        RoiMetrics(CoreCalculations(old, w, Selection(w)))))))

(***************************************************************************)
(* The state: the widgets' values, and the names the last execution of the *)
(* script bound.                                                           *)
(***************************************************************************)
VARIABLES
    \* the widgets
    view_3_years, fleet_size, fuel_price, daily_consumption, operating_days,
    checkbox, slider,
    \* the script's names
    selected_apps, app_savings, license_cost_annual, baseline_fuel_cost,
    app_saving_amounts, total_savings, payback_years, payback_months,
    roi_percent, fuel_saved, emissions_reduced, license_cost_total,
    total_savings_3yr, roi_percent_3yr, fuel_saved_3yr, emissions_reduced_3yr,
    yearly_savings, yearly_roi, yearly_fuel_saved, cumulative_savings,
    filtered_app_savings,
    \* "none", or the exception that ended the last execution
    raised,
    \* the interpreter running the script: whether its sum() compensates
    compensated_sum

widgets ==
    [view_3_years          |-> view_3_years,
     fleet_size            |-> fleet_size,
     fuel_price            |-> fuel_price,
     daily_consumption     |-> daily_consumption,
     operating_days        |-> operating_days,
     checkbox              |-> checkbox,
     slider                |-> slider]

globals ==
    [selected_apps         |-> selected_apps,
     app_savings           |-> app_savings,
     license_cost_annual   |-> license_cost_annual,
     baseline_fuel_cost    |-> baseline_fuel_cost,
     app_saving_amounts    |-> app_saving_amounts,
     total_savings         |-> total_savings,
     payback_years         |-> payback_years,
     payback_months        |-> payback_months,
     roi_percent           |-> roi_percent,
     fuel_saved            |-> fuel_saved,
     emissions_reduced     |-> emissions_reduced,
     license_cost_total    |-> license_cost_total,
     total_savings_3yr     |-> total_savings_3yr,
     roi_percent_3yr       |-> roi_percent_3yr,
     fuel_saved_3yr        |-> fuel_saved_3yr,
     emissions_reduced_3yr |-> emissions_reduced_3yr,
     yearly_savings        |-> yearly_savings,
     yearly_roi            |-> yearly_roi,
     yearly_fuel_saved     |-> yearly_fuel_saved,
     cumulative_savings    |-> cumulative_savings,
     filtered_app_savings  |-> filtered_app_savings,
     raised                |-> raised]

vars ==
    <<view_3_years, fleet_size, fuel_price, daily_consumption, operating_days,
      checkbox, slider, selected_apps, app_savings, license_cost_annual,
      baseline_fuel_cost, app_saving_amounts, total_savings, payback_years,
      payback_months, roi_percent, fuel_saved, emissions_reduced,
      license_cost_total, total_savings_3yr, roi_percent_3yr, fuel_saved_3yr,
      emissions_reduced_3yr, yearly_savings, yearly_roi, yearly_fuel_saved,
      cumulative_savings, filtered_app_savings, raised, compensated_sum>>

(***************************************************************************)
(* The values a user enters.  Money and tons are typed with two decimals   *)
(* and written here in hundredths; a slider moves in steps of 0.01.        *)
(***************************************************************************)
MaxFleetDoublings == 1

FleetSizeInputs == {0} \cup {10 * 2^i : i \in 0..MaxFleetDoublings}

FuelPriceInputs == {0, 55000, 61235}

DailyConsumptionInputs == {5000, 3330}

OperatingDaysInputs == {330, 365}

\* the checkboxes the user clicks: those ticked at the start
CheckboxInputs == {a \in Apps : AppTenths[a].default > 0}

\* the application whose slider the user moves, and where to
SliderApps == {"Hull Maintainance App"}

SliderInputs(a) == IF a \in SliderApps THEN {237} ELSE {}

(***************************************************************************)
(* The script runs from its first line to its last with the widgets' new   *)
(* values, in a namespace of its own.                                      *)
(***************************************************************************)
Execute ==
    \E r \in {RunScript(globals, widgets', compensated_sum)} :
        /\ compensated_sum' = compensated_sum
        /\ selected_apps' = r.selected_apps
        /\ app_savings' = r.app_savings
        /\ license_cost_annual' = r.license_cost_annual
        /\ baseline_fuel_cost' = r.baseline_fuel_cost
        /\ app_saving_amounts' = r.app_saving_amounts
        /\ total_savings' = r.total_savings
        /\ payback_years' = r.payback_years
        /\ payback_months' = r.payback_months
        /\ roi_percent' = r.roi_percent
        /\ fuel_saved' = r.fuel_saved
        /\ emissions_reduced' = r.emissions_reduced
        /\ license_cost_total' = r.license_cost_total
        /\ total_savings_3yr' = r.total_savings_3yr
        /\ roi_percent_3yr' = r.roi_percent_3yr
        /\ fuel_saved_3yr' = r.fuel_saved_3yr
        /\ emissions_reduced_3yr' = r.emissions_reduced_3yr
        /\ yearly_savings' = r.yearly_savings
        /\ yearly_roi' = r.yearly_roi
        /\ yearly_fuel_saved' = r.yearly_fuel_saved
        /\ cumulative_savings' = r.cumulative_savings
        /\ filtered_app_savings' = r.filtered_app_savings
        /\ raised' = r.raised

Init ==
    /\ view_3_years = FALSE
    /\ fleet_size = 10
    /\ fuel_price = Dec(55000, 2)
    /\ daily_consumption = Dec(5000, 2)
    /\ operating_days = 330
    /\ checkbox = [a \in Apps |-> FPositive(applications[a].default)]
    /\ slider = [a \in Apps |-> applications[a].default]
    /\ compensated_sum \in BOOLEAN
    /\ \E r \in {RunScript(FreshNamespace, widgets, compensated_sum)} :
           /\ selected_apps = r.selected_apps
           /\ app_savings = r.app_savings
           /\ license_cost_annual = r.license_cost_annual
           /\ baseline_fuel_cost = r.baseline_fuel_cost
           /\ app_saving_amounts = r.app_saving_amounts
           /\ total_savings = r.total_savings
           /\ payback_years = r.payback_years
           /\ payback_months = r.payback_months
           /\ roi_percent = r.roi_percent
           /\ fuel_saved = r.fuel_saved
           /\ emissions_reduced = r.emissions_reduced
           /\ license_cost_total = r.license_cost_total
           /\ total_savings_3yr = r.total_savings_3yr
           /\ roi_percent_3yr = r.roi_percent_3yr
           /\ fuel_saved_3yr = r.fuel_saved_3yr
           /\ emissions_reduced_3yr = r.emissions_reduced_3yr
           /\ yearly_savings = r.yearly_savings
           /\ yearly_roi = r.yearly_roi
           /\ yearly_fuel_saved = r.yearly_fuel_saved
           /\ cumulative_savings = r.cumulative_savings
           /\ filtered_app_savings = r.filtered_app_savings
           /\ raised = r.raised

\* the checkbox "View 3-Year ROI"
ToggleView3Years ==
    /\ view_3_years' = ~view_3_years
    /\ UNCHANGED <<fleet_size, fuel_price, daily_consumption, operating_days,
                   checkbox, slider>>
    /\ Execute

\* number_input "Fleet Size (Vessel Count)", min_value=1; a caller of the
\* calculation that is not the widget (validated = FALSE) is not held to it
SetFleetSize(validated) ==
    \E n \in FleetSizeInputs :
        /\ validated => n >= 1
        /\ n # fleet_size
        /\ fleet_size' = n
        /\ UNCHANGED <<view_3_years, fuel_price, daily_consumption,
                       operating_days, checkbox, slider>>
        /\ Execute

\* number_input "Fuel Price ($/MT)", min_value=1.0
SetFuelPrice(validated) ==
    \E c \in FuelPriceInputs :
        /\ validated => c >= 100
        /\ Dec(c, 2) # fuel_price
        /\ fuel_price' = Dec(c, 2)
        /\ UNCHANGED <<view_3_years, fleet_size, daily_consumption,
                       operating_days, checkbox, slider>>
        /\ Execute

\* number_input "Daily Avg Fuel Consumption (MT)", min_value=1.0
SetDailyConsumption(validated) ==
    \E c \in DailyConsumptionInputs :
        /\ validated => c >= 100
        /\ Dec(c, 2) # daily_consumption
        /\ daily_consumption' = Dec(c, 2)
        /\ UNCHANGED <<view_3_years, fleet_size, fuel_price, operating_days,
                       checkbox, slider>>
        /\ Execute

\* number_input "Operating Days", min_value=1
SetOperatingDays(validated) ==
    \E n \in OperatingDaysInputs :
        /\ validated => n >= 1
        /\ n # operating_days
        /\ operating_days' = n
        /\ UNCHANGED <<view_3_years, fleet_size, fuel_price, daily_consumption,
                       checkbox, slider>>
        /\ Execute

\* The checkbox of an application.  Its slider exists only while the
\* application is selected: it is created at its default when the checkbox
\* is ticked and is gone, with its value, when the checkbox is cleared.
ToggleApp ==
    \E a \in CheckboxInputs :
        /\ checkbox' = [checkbox EXCEPT ![a] = ~checkbox[a]]
        /\ slider' = [slider EXCEPT ![a] = applications[a].default]
        /\ UNCHANGED <<view_3_years, fleet_size, fuel_price, daily_consumption,
                       operating_days>>
        /\ Execute

\* the slider of a selected application, between its min and its max
SetSlider ==
    \E a \in Apps : \E h \in SliderInputs(a) :
        /\ checkbox[a]
        /\ 10 * AppTenths[a].min <= h /\ h <= 10 * AppTenths[a].max
        /\ Dec(h, 2) # slider[a]
        /\ slider' = [slider EXCEPT ![a] = Dec(h, 2)]
        /\ UNCHANGED <<view_3_years, fleet_size, fuel_price, daily_consumption,
                       operating_days, checkbox>>
        /\ Execute

\* Streamlit's "Rerun": the script is executed again, no widget has changed
Rerun ==
    /\ UNCHANGED <<view_3_years, fleet_size, fuel_price, daily_consumption,
                   operating_days, checkbox, slider>>
    /\ Execute

\* the application as the user drives it
Next ==
    \/ ToggleView3Years
    \/ SetFleetSize(TRUE)
    \/ SetFuelPrice(TRUE)
    \/ SetDailyConsumption(TRUE)
    \/ SetOperatingDays(TRUE)
    \/ ToggleApp
    \/ SetSlider
    \/ Rerun

Spec == Init /\ [][Next]_vars

\* the calculation driven with any input, those the widgets refuse included
NextEngine ==
    \/ ToggleView3Years
    \/ SetFleetSize(FALSE)
    \/ SetFuelPrice(FALSE)
    \/ SetDailyConsumption(FALSE)
    \/ SetOperatingDays(FALSE)
    \/ ToggleApp
    \/ SetSlider
    \/ Rerun

SpecEngine == Init /\ [][NextEngine]_vars

(***************************************************************************)
(* The properties.                                                         *)
(***************************************************************************)
\* the inputs the widgets accept
ValidInputs ==
    /\ fleet_size > 0
    /\ FPositive(fuel_price)
    /\ FPositive(daily_consumption)
    /\ operating_days > 0

NoAppSelected == \A a \in Apps : ~selected_apps[a]

\* C1: with valid inputs and no application selected, total_savings is 0,
\* payback_months is nan and roi_percent is -100.
C1_NoSelection ==
    (ValidInputs /\ NoAppSelected) =>
        /\ IsZero(total_savings)
        /\ IsNaN(payback_months)
        /\ roi_percent = FromInt(-100)

\* the user has cleared every checkbox
C1_Witness ==
    /\ ValidInputs
    /\ \A a \in Apps : ~checkbox[a]
    /\ roi_percent = FromInt(-100)
    /\ IsNaN(payback_months)

\* C3: an application that is not selected has a saving percentage of 0 and
\* a saving amount of 0 whatever its slider's value is, and total_savings is
\* the sum of the amounts of the selected applications alone.
C3_UnselectedIsZero ==
    /\ \A a \in Apps :
           ~selected_apps[a] =>
               IsZero(app_savings[a]) /\ IsZero(app_saving_amounts[a])
    /\ total_savings =
           SumFrom(Zero,
                   [a \in Apps |->
                       IF selected_apps[a]
                       THEN SavingAmount(baseline_fuel_cost, slider[a])
                       ELSE Zero], 1)

\* an application with a slider value above 0 is not selected while another
\* one is
C3_Witness ==
    /\ \E a \in Apps :
           /\ ~selected_apps[a]
           /\ FPositive(slider[a])
           /\ IsZero(app_saving_amounts[a])
    /\ FPositive(total_savings)

\* C8 as stated: with no application selected total_savings is 0 and both
\* the payback and the ROI are nan.
C8_AsStated ==
    NoAppSelected =>
        /\ IsZero(total_savings)
        /\ IsNaN(payback_years)
        /\ IsNaN(payback_months)
        /\ IsNaN(roi_percent)

\* C8 amended: with no application selected total_savings is 0 and the
\* payback, in years and in months, is nan; the ROI is nan only when
\* license_cost_annual is 0 and is -100 otherwise.
C8_NoSelection ==
    NoAppSelected =>
        /\ IsZero(total_savings)
        /\ IsNaN(payback_years)
        /\ IsNaN(payback_months)
        /\ roi_percent =
               IF license_cost_annual = 0 THEN NaN ELSE FromInt(-100)

\* no application is selected and the license costs something
C8_Witness ==
    /\ NoAppSelected
    /\ license_cost_annual > 0
    /\ IsNaN(payback_years)
    /\ ~IsNaN(roi_percent)

\* C4: whatever the changes of the inputs before, the names the last
\* execution bound are those a first execution on the current inputs binds:
\* nothing of an earlier execution is left in them.
C4_FreshEvaluation ==
    globals = RunScript(FreshNamespace, widgets, compensated_sum)

\* several inputs have been changed, an application has been cleared and
\* ticked again
C4_Witness ==
    /\ fleet_size # 10
    /\ view_3_years
    /\ ~checkbox["Voyage Optimization App"]
    /\ checkbox["Hull Maintainance App"]
    /\ slider["Hull Maintainance App"] # applications["Hull Maintainance App"].default
    /\ FPositive(total_savings)

\* C5: a change of fleet_size to its double, the other inputs unchanged,
\* doubles license_cost_annual, baseline_fuel_cost and every saving amount
\* exactly.
C5_FleetDoubling ==
    [][(/\ fleet_size' = 2 * fleet_size
        /\ UNCHANGED <<fuel_price, daily_consumption, operating_days,
                       checkbox, slider>>)
       => /\ license_cost_annual' = 2 * license_cost_annual
          /\ baseline_fuel_cost' = FMul(FromInt(2), baseline_fuel_cost)
          /\ \A a \in Apps :
                 app_saving_amounts'[a] =
                     FMul(FromInt(2), app_saving_amounts[a])]_vars

\* the fleet has been doubled and there are savings
C5_Witness ==
    /\ fleet_size = 2 * 10
    /\ license_cost_annual = 2 * LicenseCostAnnual(10)
    /\ \E a \in Apps : FPositive(app_saving_amounts[a])

\* C6: in the 3-year view each 3-year total is 3 times its 1-year value.
C6_ThreeTimes ==
    (view_3_years /\ raised = "none") =>
        /\ license_cost_total = 3 * license_cost_annual
        /\ total_savings_3yr = FMul(total_savings, FromInt(3))
        /\ fuel_saved_3yr = FMul(fuel_saved, FromInt(3))
        /\ emissions_reduced_3yr = FMul(emissions_reduced, FromInt(3))

\* the 3-year view of a fleet with savings
C6_Witness ==
    /\ view_3_years
    /\ FPositive(fuel_saved)
    /\ fuel_saved_3yr = FMul(fuel_saved, FromInt(3))
    /\ license_cost_total = 3 * license_cost_annual

\* C9: payback_months is payback_years * 12; it is nan exactly when
\* total_savings is 0, and license_cost_annual / total_savings * 12 otherwise.
C9_PaybackMonths ==
    /\ payback_months = FMul(payback_years, FromInt(12))
    /\ IsNaN(payback_months) <=> IsZero(total_savings)
    /\ ~IsZero(total_savings) =>
           payback_months =
               FMul(FDiv(FromInt(license_cost_annual), total_savings),
                    FromInt(12))

\* a license that costs something and saves nothing: payback_years is nan
\* and payback_months is nan with it
C9_Witness ==
    /\ license_cost_annual > 0
    /\ IsZero(total_savings)
    /\ IsNaN(payback_years)
    /\ IsNaN(payback_months)

\* C2: whatever the inputs (fuel_price above 0), the execution ends without
\* an exception, and every ratio with a zero divisor is nan.
C2_NeverRaises ==
    FPositive(fuel_price) =>
        /\ raised = "none"
        /\ IsZero(total_savings) => IsNaN(payback_years) /\ IsNaN(payback_months)
        /\ license_cost_annual = 0 => IsNaN(roi_percent)
        /\ (view_3_years /\ license_cost_annual = 0) =>
               /\ IsNaN(roi_percent_3yr)
               /\ yearly_roi # Unbound
               /\ IsNaN(yearly_roi[2])

\* the formulas of the 1-year metrics other than fuel_saved
ReferenceFormulas ==
    /\ license_cost_annual = fleet_size * 300 * 12
    /\ baseline_fuel_cost =
           FMul(FMul(FMul(FromInt(fleet_size), daily_consumption),
                     FromInt(operating_days)), fuel_price)
    /\ \A a \in Apps :
           app_saving_amounts[a] =
               FDiv(FMul(baseline_fuel_cost,
                         IF checkbox[a] THEN slider[a] ELSE Zero),
                    FromInt(100))
    /\ total_savings = SumFrom(Zero, app_saving_amounts, 1)
    /\ emissions_reduced = FMul(fuel_saved, Dec(3114, 3))

\* 10 vessels, 550 $/MT, 50 MT a day, 330 days, only "Hull Maintainance
\* App", at 3.0 %
ScenarioInputs ==
    /\ fleet_size = 10
    /\ fuel_price = FromInt(550)
    /\ daily_consumption = FromInt(50)
    /\ operating_days = 330
    /\ \A a \in Apps : checkbox[a] <=> a = "Hull Maintainance App"
    /\ slider["Hull Maintainance App"] = Dec(30, 1)

ScenarioMetrics ==
    /\ license_cost_annual = 36000
    /\ baseline_fuel_cost = FromInt(90750000)
    /\ total_savings = FromInt(2722500)
    /\ fuel_saved = FromInt(4950)
    /\ emissions_reduced = Dec(154143, 1)

\* C7 as stated: with valid inputs the 1-year metrics are their reference
\* formulas, fuel_saved being total_savings / fuel_price, and the scenario
\* gives 36000, 90750000, 2722500, 4950 and 15414.3.
C7_AsStated ==
    ValidInputs =>
        /\ ReferenceFormulas
        /\ fuel_saved = FDiv(total_savings, fuel_price)
        /\ ScenarioInputs => ScenarioMetrics

\* C7: with valid inputs the 1-year metrics are their reference formulas,
\* fuel_saved being the builtin sum of the saving amounts divided by
\* fuel_price: total_savings / fuel_price where sum() adds left to right,
\* the compensated sum divided by fuel_price where it compensates.  The
\* scenario gives 36000, 90750000, 2722500, 4950 and 15414.3 either way.
C7_ReferenceFormulas ==
    ValidInputs =>
        /\ ReferenceFormulas
        /\ fuel_saved =
               FDiv(IF compensated_sum
                    THEN NeumaierEnd(NeumaierFrom(<<Zero, Zero>>,
                                                  app_saving_amounts, 1))
                    ELSE total_savings,
                    fuel_price)
        /\ ScenarioInputs => ScenarioMetrics

\* the scenario has been entered and evaluated
C7_Witness ==
    /\ ScenarioInputs
    /\ fuel_saved = FromInt(4950)
    /\ emissions_reduced = Dec(154143, 1)

\* the series of the 3-year view other than yearly_roi
YearlySeriesFormulas ==
    /\ cumulative_savings =
           <<total_savings, FMul(total_savings, FromInt(2)),
             FMul(total_savings, FromInt(3))>>
    /\ yearly_fuel_saved = <<fuel_saved, fuel_saved, fuel_saved>>

\* C10 as stated: in the 3-year view with license_cost_annual > 0 the three
\* entries of yearly_roi are equal, cumulative_savings is 1, 2 and 3 times
\* total_savings and yearly_fuel_saved is fuel_saved three times.
C10_AsStated ==
    (view_3_years /\ license_cost_annual > 0) =>
        /\ yearly_roi[1] = roi_percent
        /\ yearly_roi[3] = roi_percent_3yr
        /\ yearly_roi[2] = yearly_roi[1]
        /\ yearly_roi[3] = yearly_roi[1]
        /\ YearlySeriesFormulas

\* C10: in the 3-year view with license_cost_annual > 0 the first two
\* entries of yearly_roi are roi_percent; the third is roi_percent_3yr, the
\* ROI formula on the tripled savings and the tripled license cost, each
\* operation rounded, which is roi_percent or differs from it in the last
\* bits.  cumulative_savings is 1, 2 and 3 times total_savings and
\* yearly_fuel_saved is fuel_saved three times.
C10_YearlySeries ==
    (view_3_years /\ license_cost_annual > 0) =>
        /\ yearly_roi[1] = roi_percent
        /\ yearly_roi[2] = roi_percent
        /\ yearly_roi[3] = roi_percent_3yr
        /\ roi_percent_3yr =
               FMul(FDiv(FSub(FMul(total_savings, FromInt(3)),
                              FromInt(license_cost_annual * 3)),
                         FromInt(license_cost_annual * 3)),
                    FromInt(100))
        /\ YearlySeriesFormulas

\* a 3-year view whose third ROI is not the first, while the second is
C10_Witness ==
    /\ view_3_years
    /\ license_cost_annual > 0
    /\ yearly_roi[2] = yearly_roi[1]
    /\ yearly_roi[3] # yearly_roi[1]
    /\ FPositive(total_savings)

====
